---- MODULE Spec2Model ----
(***************************************************************************)
(* Verification model of the concept/dispatch core of boost::hana:         *)
(*   - Logical::mcd          (include/boost/hana/logical.hpp)              *)
(*   - Orderable::less_mcd   (include/boost/hana/orderable.hpp)            *)
(*   - the operator bridge   (namespace operators of both headers)         *)
(*   - the Comparable instance of test::Numeric                            *)
(*                           (test/test/numeric/comparable.hpp)            *)
(*   - Set construction      (test/set/make.cpp)                           *)
(*   - take_while            (benchmark/list/take_while.cpp)               *)
(* Each subsystem has its own specification over the shared variables.     *)
(***************************************************************************)
EXTENDS Integers, Sequences, FiniteSets, TLC

VARIABLES
    \* ---- Logical / Orderable calls
    op,         \* name of the last concept operation called
    args,       \* its arguments, in the order written
    result,     \* the value it returned
    log,        \* what its evaluation did, in order
    inst,       \* which `less` primitive the Orderable instance supplies
    \* ---- operator bridge
    enable_operators,   \* opt-in flag per <<concept, tag>>
    expr,               \* the last operator expression <<operator, tagX, tagY>>
    routed,             \* the named function the bridge routed it to, or NoRoute
    \* ---- Set
    S,          \* storage of the current set (a sequence, no two equal elements)
    setCall,    \* record of the last Set operation
    \* ---- Sequence algorithms
    list, pred, taken, dropped,
    \* ---- concept registry
    registry,   \* set of instances [concept, tags, mcd]
    defined,    \* configuration macros defined for the translation unit
    included,   \* include guard of test/numeric/comparable.hpp
    regCall,    \* record of the last registration
    \* ---- MCD resolver
    root, pending, steps, operands

vars == << op, args, result, log, inst,
           enable_operators, expr, routed,
           S, setCall,
           list, pred, taken, dropped,
           registry, defined, included, regCall,
           root, pending, steps, operands >>

callVars     == << op, args, result, log, inst >>
bridgeVars   == << enable_operators, expr, routed >>
setVars      == << S, setCall >>
seqVars      == << list, pred, taken, dropped >>
registryVars == << registry, included, regCall >>
resolveVars  == << root, pending, steps, operands >>

\* what the operations of one subsystem leave alone
notCall     == << bridgeVars, setVars, seqVars, registryVars, resolveVars, defined >>
notBridge   == << callVars, setVars, seqVars, registryVars, resolveVars, defined >>
notSet      == << callVars, bridgeVars, seqVars, registryVars, resolveVars, defined >>
notSeq      == << callVars, bridgeVars, setVars, registryVars, resolveVars, defined >>
notRegistry == << callVars, bridgeVars, setVars, seqVars, resolveVars, defined >>
notResolve  == << callVars, bridgeVars, setVars, seqVars, registryVars, defined >>

(***************************************************************************)
(* Bounds                                                                  *)
(***************************************************************************)
MaxVal == 2     \* test::Numeric values are 0..MaxVal
MaxLen == 3     \* longest argument list / sequence

Numeric == 0..MaxVal

(***************************************************************************)
(* Logical instance of test::Numeric: the two primitives of Logical::mcd.  *)
(***************************************************************************)
truth(v) == v # 0

\* a branch callable: [=](auto) { return t; }
Closure(name, v) == [name |-> name, captured |-> v]

Invoke(f) == [val |-> f.captured, log |-> << <<"invoke", f.name>> >>]

eval_if(c, then_, else_) ==
    LET r == IF truth(c) THEN Invoke(then_) ELSE Invoke(else_)
    IN  [val |-> r.val, log |-> << <<"call", "eval_if">> >> \o r.log]

not_(x) == IF truth(x) THEN 0 ELSE 1

(***************************************************************************)
(* Logical::mcd                                                            *)
(***************************************************************************)
\* if_impl(C c, T t, E e): the three parameters are taken by value, both
\* branch values are copied into the two closures, then eval_if selects.
if_impl_swapped(c, t, e) ==
    LET r == eval_if(c, Closure("then", e), Closure("else", t))
    IN  [val |-> r.val,
         log |-> << <<"param", "then">>, <<"param", "else">>,
                    <<"capture", "then">>, <<"capture", "else">> >> \o r.log]

if_impl(c, t, e) ==
    LET r == eval_if(c, Closure("then", t), Closure("else", e))
    IN  [val |-> r.val,
         log |-> << <<"param", "then">>, <<"param", "else">>,
                    <<"capture", "then">>, <<"capture", "else">> >> \o r.log]

if_(c, t, e) ==
    LET r == if_impl(c, t, e)
    IN  [val |-> r.val, log |-> << <<"call", "if_">> >> \o r.log]

or_impl_and(x, y) == if_(x, y, x)

or_impl(x, y) == if_(x, x, y)

and_impl(x, y) == if_(x, y, x)

(***************************************************************************)
(* Orderable instance: the primitive `less`.  Two instances are modelled:  *)
(* "value" orders Numerics by value; "half" orders them by value \div 2,   *)
(* so that distinct values can be equivalent.                              *)
(***************************************************************************)
OrdInstances == {"value", "half"}

key(i, x) == IF i = "value" THEN x ELSE x \div 2

less(i, x, y) == IF key(i, x) < key(i, y) THEN 1 ELSE 0

(***************************************************************************)
(* Orderable::less_mcd                                                     *)
(***************************************************************************)
less_equal_impl(i, x, y) ==
    [val |-> not_(less(i, y, x)),
     log |-> << <<"call", "less">>, <<"call", "not_">> >>]

greater_impl(i, x, y) ==
    [val |-> less(i, y, x), log |-> << <<"call", "less">> >>]

greater_equal_impl(i, x, y) ==
    [val |-> not_(less(i, x, y)),
     log |-> << <<"call", "less">>, <<"call", "not_">> >>]

min_impl_swapped(i, x, y) ==
    LET cond == less(i, x, y)
        r    == if_(cond, y, x)
    IN  [val |-> r.val, log |-> << <<"call", "less">> >> \o r.log]

min_impl(i, x, y) ==
    LET cond == less(i, x, y)
        r    == if_(cond, x, y)
    IN  [val |-> r.val, log |-> << <<"call", "less">> >> \o r.log]

max_impl(i, x, y) ==
    LET cond == less(i, x, y)
        r    == if_(cond, y, x)
    IN  [val |-> r.val, log |-> << <<"call", "less">> >> \o r.log]

(***************************************************************************)
(* Calls of the concept operations                                         *)
(***************************************************************************)
Return(name, as, r) ==
    /\ op' = name
    /\ args' = as
    /\ result' = r.val
    /\ log' = r.log
    /\ UNCHANGED << inst, notCall >>

Call_if_ ==
    \E c \in Numeric, t \in Numeric, e \in Numeric :
        Return("if_", <<c, t, e>>, if_(c, t, e))

Call_or_ ==
    \E x \in Numeric, y \in Numeric :
        Return("or_", <<x, y>>, or_impl(x, y))

Call_and_ ==
    \E x \in Numeric, y \in Numeric :
        Return("and_", <<x, y>>, and_impl(x, y))

Call_not_ ==
    \E x \in Numeric :
        Return("not_", <<x>>, [val |-> not_(x), log |-> << >>])

Call_less ==
    \E x \in Numeric, y \in Numeric :
        Return("less", <<x, y>>, [val |-> less(inst, x, y), log |-> << >>])

Call_less_equal ==
    \E x \in Numeric, y \in Numeric :
        Return("less_equal", <<x, y>>, less_equal_impl(inst, x, y))

Call_greater ==
    \E x \in Numeric, y \in Numeric :
        Return("greater", <<x, y>>, greater_impl(inst, x, y))

Call_greater_equal ==
    \E x \in Numeric, y \in Numeric :
        Return("greater_equal", <<x, y>>, greater_equal_impl(inst, x, y))

Call_min ==
    \E x \in Numeric, y \in Numeric :
        Return("min", <<x, y>>, min_impl(inst, x, y))

Call_max ==
    \E x \in Numeric, y \in Numeric :
        Return("max", <<x, y>>, max_impl(inst, x, y))

(***************************************************************************)
(* Values the variables of a subsystem hold while another one is checked   *)
(***************************************************************************)
NoRoute == "none"

CallIdle ==
    /\ op = "none" /\ args = << >> /\ result = 0 /\ log = << >>
    /\ inst = "value"

BridgeIdle ==
    /\ enable_operators = << >> /\ expr = << >> /\ routed = NoRoute

SetIdle ==
    /\ S = << >> /\ setCall = [name |-> "none"]

NotRun == [done |-> FALSE]

SeqIdle ==
    /\ list = << >> /\ pred = {} /\ taken = NotRun /\ dropped = NotRun

RegistryIdle ==
    /\ registry = {} /\ included = FALSE /\ regCall = [name |-> "none"]

ResolveIdle ==
    /\ root = "none" /\ pending = << >> /\ steps = 0 /\ operands = << >>

(***************************************************************************)
(* Specification of the Logical and Orderable concept operations           *)
(***************************************************************************)
Init ==
    /\ op = "none" /\ args = << >> /\ result = 0 /\ log = << >>
    /\ inst \in OrdInstances
    /\ BridgeIdle /\ SetIdle /\ SeqIdle /\ RegistryIdle /\ ResolveIdle
    /\ defined = {}

Next ==
    \/ Call_if_
    \/ Call_or_
    \/ Call_and_
    \/ Call_not_
    \/ Call_less
    \/ Call_less_equal
    \/ Call_greater
    \/ Call_greater_equal
    \/ Call_min
    \/ Call_max

Spec == Init /\ [][Next]_vars

(***************************************************************************)
(* Claims about Logical::mcd and Orderable::less_mcd                       *)
(***************************************************************************)
\* the operations whose evaluation goes through if_, and the condition and
\* the two branch values they hand to it
IfOps == {"if_", "or_", "and_", "min", "max"}

IfCall ==
    CASE op = "if_"  -> args
      [] op = "or_"  -> <<args[1], args[1], args[2]>>
      [] op = "and_" -> <<args[1], args[2], args[1]>>
      [] op = "min"  -> <<less(inst, args[1], args[2]), args[1], args[2]>>
      [] op = "max"  -> <<less(inst, args[1], args[2]), args[2], args[1]>>

Selected == IF IfCall[1] # 0 THEN "then" ELSE "else"
Untaken  == IF IfCall[1] # 0 THEN "else" ELSE "then"

Invoked == { i \in 1..Len(log) : log[i][1] = "invoke" }

Touches(name) == { i \in 1..Len(log) : log[i][1] # "call" /\ log[i][2] = name }

IfReturnsSelected ==
    op \in IfOps => result = IF IfCall[1] # 0 THEN IfCall[2] ELSE IfCall[3]

\* C1 as stated: if_(c, t, e) returns t when c is true-valued and e otherwise,
\* and nothing of the untaken branch is computed: no step of the evaluation
\* touches it, before or after the selection.
C1_UntakenNeverEvaluated ==
    /\ IfReturnsSelected
    /\ op \in IfOps => /\ Cardinality(Invoked) <= 1
                       /\ Touches(Untaken) = {}

\* C1 amended: if_(c, t, e) returns t when c is true-valued and e otherwise;
\* of the two branch callables handed to eval_if exactly one, the selected
\* one, is invoked and the untaken one never is; both branch values are
\* already values when if_ is entered and both are copied into the callables
\* before the selection.
C1_OnlySelectedInvoked ==
    /\ IfReturnsSelected
    /\ op \in IfOps =>
         /\ Cardinality(Invoked) = 1
         /\ \A i \in Invoked : log[i][2] = Selected
         /\ \A n \in {"then", "else"} :
              \E i \in Touches(n) :
                 /\ log[i][1] = "capture"
                 /\ \A j \in Invoked : i < j

C1_Witness ==
    /\ op = "if_" /\ args = <<1, 1, 2>> /\ result = 1
    /\ \E i \in Invoked : log[i][2] = "then"
    /\ \E i \in Touches("else") : log[i][1] = "capture"

\* C2: under the less-MCD each derived operation returns the value of its
\* reference definition computed from the primitive less, operand order as
\* written.
C2_DerivedAgreeWithLess ==
    LET x  == args[1]
        y  == args[2]
        lt(a, b) == key(inst, a) < key(inst, b)
    IN  /\ op = "less_equal"    => result = IF lt(y, x) THEN 0 ELSE 1
        /\ op = "greater"       => result = IF lt(y, x) THEN 1 ELSE 0
        /\ op = "greater_equal" => result = IF lt(x, y) THEN 0 ELSE 1
        /\ op = "min"           => result = IF lt(x, y) THEN x ELSE y
        /\ op = "max"           => result = IF lt(x, y) THEN y ELSE x

\* min of two distinct equivalent values: the second operand is returned
C2_Witness ==
    /\ inst = "half" /\ op = "min" /\ args = <<0, 1>> /\ result = 1

\* C3: or_(x, y) returns x when x is true-valued and y otherwise, and_(x, y)
\* returns y when x is true-valued and x otherwise; their truth values are
\* the disjunction and the conjunction of the truth values of x and y.
C3_OrAnd ==
    LET x == args[1]
        y == args[2]
    IN  /\ op = "or_"  => /\ result = IF x # 0 THEN x ELSE y
                          /\ (result # 0) <=> (x # 0 \/ y # 0)
        /\ op = "and_" => /\ result = IF x # 0 THEN y ELSE x
                          /\ (result # 0) <=> (x # 0 /\ y # 0)

C3_Witness ==
    /\ op = "or_" /\ args = <<0, 2>> /\ result = 2

(***************************************************************************)
(* Operator bridge (namespace operators)                                   *)
(***************************************************************************)
Concepts == {"Logical", "Orderable"}
Tags == {"Tuple", "Numeric", "Builtin"}

\* enable_operators<Concept, datatype_t<X>>::value
enabled(concept, tag) == enable_operators[<<concept, tag>>]

\* template <typename X, typename Y, typename = enable_if<... || ...>>
operator_land(tx, ty) ==
    IF enabled("Logical", tx) \/ enabled("Logical", ty) THEN "and_" ELSE NoRoute

operator_lor(tx, ty) ==
    IF enabled("Logical", tx) \/ enabled("Logical", ty) THEN "or_" ELSE NoRoute

operator_lnot(tx) ==
    IF enabled("Logical", tx) THEN "not_" ELSE NoRoute

operator_lt_first_only(tx, ty) ==
    IF enabled("Orderable", tx) THEN "less" ELSE NoRoute

operator_lt(tx, ty) ==
    IF enabled("Orderable", tx) \/ enabled("Orderable", ty) THEN "less" ELSE NoRoute

operator_le(tx, ty) ==
    IF enabled("Orderable", tx) \/ enabled("Orderable", ty)
    THEN "less_equal" ELSE NoRoute

operator_gt(tx, ty) ==
    IF enabled("Orderable", tx) \/ enabled("Orderable", ty)
    THEN "greater" ELSE NoRoute

operator_ge(tx, ty) ==
    IF enabled("Orderable", tx) \/ enabled("Orderable", ty)
    THEN "greater_equal" ELSE NoRoute

\* an operator expression over operands of the given tags is translated
Translate(e, r) ==
    /\ expr' = e
    /\ routed' = r
    /\ UNCHANGED << enable_operators, notBridge >>

Expr_land == \E tx \in Tags, ty \in Tags : Translate(<<"&&", tx, ty>>, operator_land(tx, ty))

Expr_lor == \E tx \in Tags, ty \in Tags : Translate(<<"||", tx, ty>>, operator_lor(tx, ty))

Expr_lnot == \E tx \in Tags : Translate(<<"!", tx>>, operator_lnot(tx))

Expr_lt == \E tx \in Tags, ty \in Tags : Translate(<<"<", tx, ty>>, operator_lt(tx, ty))

Expr_le == \E tx \in Tags, ty \in Tags : Translate(<<"<=", tx, ty>>, operator_le(tx, ty))

Expr_gt == \E tx \in Tags, ty \in Tags : Translate(<<">", tx, ty>>, operator_gt(tx, ty))

Expr_ge == \E tx \in Tags, ty \in Tags : Translate(<<">=", tx, ty>>, operator_ge(tx, ty))

\* The flags are whatever the tags of the program specialise them to be,
\* except that Tuple provides the Orderable operators and no Logical ones.
TupleOperators(f) ==
    /\ f[<<"Orderable", "Tuple">>] = TRUE
    /\ f[<<"Logical", "Tuple">>] = FALSE

InitBridge ==
    /\ enable_operators \in { f \in [Concepts \X Tags -> BOOLEAN] : TupleOperators(f) }
    /\ expr = << >> /\ routed = NoRoute
    /\ CallIdle /\ SetIdle /\ SeqIdle /\ RegistryIdle /\ ResolveIdle
    /\ defined = {}

NextBridge ==
    \/ Expr_land
    \/ Expr_lor
    \/ Expr_lnot
    \/ Expr_lt
    \/ Expr_le
    \/ Expr_gt
    \/ Expr_ge

SpecBridge == InitBridge /\ [][NextBridge]_vars

ConceptOf(o) == IF o \in {"&&", "||", "!"} THEN "Logical" ELSE "Orderable"

TargetOf(o) ==
    CASE o = "&&" -> "and_"
      [] o = "||" -> "or_"
      [] o = "!"  -> "not_"
      [] o = "<"  -> "less"
      [] o = "<=" -> "less_equal"
      [] o = ">"  -> "greater"
      [] o = ">=" -> "greater_equal"

OperandTags == { expr[i] : i \in 2..Len(expr) }

\* C4: the bridge overload applies, and routes the expression to the named
\* function of the operator, if and only if the opt-in flag of the operator's
\* concept is set for the tag of at least one operand; an expression none of
\* whose operand tags opted in is never routed.
C4_BridgeGated ==
    expr # << >> =>
        LET optedIn == \E t \in OperandTags : enable_operators[<<ConceptOf(expr[1]), t>>]
        IN  /\ optedIn => routed = TargetOf(expr[1])
            /\ ~optedIn => routed = NoRoute

\* only the second operand opted in, and the bridge applies
C4_Witness ==
    /\ expr = <<"<", "Builtin", "Tuple">> /\ routed = "less"
    /\ ~enable_operators[<<"Orderable", "Builtin">>]

(***************************************************************************)
(* Comparable instance of test::Numeric (test/numeric/comparable.hpp)      *)
(***************************************************************************)
EQUAL_MCD == "BOOST_HANA_TEST_COMPARABLE_EQUAL_MCD"
NOT_EQUAL_MCD == "BOOST_HANA_TEST_COMPARABLE_NOT_EQUAL_MCD"
Macros == {EQUAL_MCD, NOT_EQUAL_MCD}

\* #if defined(BOOST_HANA_TEST_COMPARABLE_EQUAL_MCD) ... #else ... #endif
SelectedMCD_elif(d) ==
    IF EQUAL_MCD \in d THEN {"equal_mcd"}
    ELSE IF NOT_EQUAL_MCD \in d THEN {"not_equal_mcd"} ELSE {}

SelectedMCD(d) ==
    IF EQUAL_MCD \in d THEN {"equal_mcd"} ELSE {"not_equal_mcd"}

equal_impl_ne(x, y) == IF x # y THEN 1 ELSE 0

equal_impl(x, y) == IF x = y THEN 1 ELSE 0

not_equal_impl_eq(x, y) == IF x = y THEN 1 ELSE 0

not_equal_impl(x, y) == IF x # y THEN 1 ELSE 0

\* equal, dispatched to the instance: the primitive under the equal-MCD, the
\* derivation not_(not_equal(x, y)) under the not_equal-MCD
equal(d, x, y) ==
    IF "equal_mcd" \in SelectedMCD(d)
    THEN equal_impl(x, y)
    ELSE not_(not_equal_impl(x, y))

(***************************************************************************)
(* Set                                                                     *)
(***************************************************************************)
contains(d, s, x) == \E i \in 1..Len(s) : truth(equal(d, s[i], x))

insert(d, s, x) == IF contains(d, s, x) THEN s ELSE Append(s, x)

\* make<Set>(xs...): repeated insert starting from the empty set
RECURSIVE make_Set(_, _)
make_Set(d, xs) ==
    IF xs = << >> THEN << >>
    ELSE insert(d, make_Set(d, SubSeq(xs, 1, Len(xs) - 1)), xs[Len(xs)])

Without(d, s, x) == SelectSeq(s, LAMBDA e : ~truth(equal(d, e, x)))

\* set(ys...): the set holding the given elements
RECURSIVE set_literal(_, _)
set_literal(d, ys) ==
    IF ys = << >> THEN << >>
    ELSE << Head(ys) >> \o set_literal(d, Without(d, Tail(ys), Head(ys)))

\* equal on two sets: same number of elements, each element of the first
\* equal to one of the second
set_equal(d, s1, s2) ==
    IF Len(s1) = Len(s2) /\ \A i \in 1..Len(s1) : contains(d, s2, s1[i])
    THEN 1 ELSE 0

Lists == UNION { [1..n -> Numeric] : n \in 0..MaxLen }

Reorderings(xs) ==
    { [i \in 1..Len(xs) |-> xs[f[i]]] :
        f \in { g \in [1..Len(xs) -> 1..Len(xs)] :
                  \A i, j \in 1..Len(xs) : g[i] = g[j] => i = j } }

Insert ==
    /\ \E x \in Numeric :
          /\ S' = insert(defined, S, x)
          /\ setCall' = [name |-> "insert", x |-> x, before |-> S]
    /\ UNCHANGED notSet

\* the construction the program was written with is translated: both
\* make<Set>(xs...) and set(ys...) are built
Make ==
    /\ setCall.name = "pending"
    /\ S' = make_Set(defined, setCall.xs)
    /\ setCall' = [name |-> "make", xs |-> setCall.xs, ys |-> setCall.ys,
                   literal |-> set_literal(defined, setCall.ys)]
    /\ UNCHANGED notSet

InitSet ==
    /\ S = << >>
    /\ \E xs \in Lists :
          \E ys \in Reorderings(xs) :
              setCall = [name |-> "pending", xs |-> xs, ys |-> ys]
    /\ defined \in SUBSET Macros
    /\ CallIdle /\ BridgeIdle /\ SeqIdle /\ RegistryIdle /\ ResolveIdle

NextSet ==
    \/ Insert
    \/ Make

SpecSet == InitSet /\ [][NextSet]_vars

\* C5: make<Set>(xs...) equals set(ys...) for every list xs (the empty one
\* included) and every reordering ys of xs.
C5_MakeEqualsLiteral ==
    setCall.name = "make" => set_equal(defined, S, setCall.literal) = 1

C5_Witness ==
    /\ setCall.name = "make"
    /\ setCall.xs = <<0, 1, 2>> /\ setCall.ys = <<2, 0, 1>>
    /\ S = <<0, 1, 2>> /\ setCall.literal = <<2, 0, 1>>

\* C6: inserting a value equal to an element already present returns the set
\* unchanged, insert(insert(S, x), x) equals insert(S, x) for every set S
\* built by inserts, and make<Set>(x, x) equals make<Set>(x).
C6_InsertIdempotent ==
    /\ setCall.name = "insert" /\ contains(defined, setCall.before, setCall.x)
          => S = setCall.before
    /\ \A x \in Numeric :
          set_equal(defined, insert(defined, insert(defined, S, x), x),
                    insert(defined, S, x)) = 1
    /\ \A i, j \in 1..Len(S) : truth(equal(defined, S[i], S[j])) => i = j
    /\ setCall.name = "make" /\ Len(setCall.xs) = 2 /\ setCall.xs[1] = setCall.xs[2]
          => set_equal(defined, S, make_Set(defined, << setCall.xs[1] >>)) = 1

C6_Witness ==
    /\ setCall.name = "insert" /\ setCall.x = 1
    /\ setCall.before = <<0, 1>> /\ S = <<0, 1>>

(***************************************************************************)
(* Sequence algorithms: take_while and drop_while.  A predicate is the set *)
(* of the values it holds on.                                              *)
(***************************************************************************)
\* auto pred = [](auto&& x) { return boost::hana::true_; };
true_pred == Numeric

RECURSIVE take_while_filter(_, _)
take_while_filter(s, p) ==
    IF s = << >> THEN << >>
    ELSE IF Head(s) \in p THEN << Head(s) >> \o take_while_filter(Tail(s), p)
         ELSE take_while_filter(Tail(s), p)

RECURSIVE take_while(_, _)
take_while(s, p) ==
    IF s = << >> THEN << >>
    ELSE IF Head(s) \in p THEN << Head(s) >> \o take_while(Tail(s), p)
         ELSE << >>

drop_while_first(s, p) ==
    IF s # << >> /\ Head(s) \in p THEN Tail(s) ELSE s

RECURSIVE drop_while(_, _)
drop_while(s, p) ==
    IF s = << >> THEN << >>
    ELSE IF Head(s) \in p THEN drop_while(Tail(s), p)
         ELSE s

TakeWhile ==
    /\ taken' = [done |-> TRUE, val |-> take_while(list, pred), input |-> list]
    /\ UNCHANGED << list, pred, dropped, notSeq >>

DropWhile ==
    /\ dropped' = [done |-> TRUE, val |-> drop_while(list, pred), input |-> list]
    /\ UNCHANGED << list, pred, taken, notSeq >>

InitSeq ==
    /\ list \in Lists
    /\ pred \in SUBSET Numeric
    /\ taken = NotRun /\ dropped = NotRun
    /\ CallIdle /\ BridgeIdle /\ SetIdle /\ RegistryIdle /\ ResolveIdle
    /\ defined = {}

NextSeq ==
    \/ TakeWhile
    \/ DropWhile

SpecSeq == InitSeq /\ [][NextSeq]_vars

\* C7: take_while(seq, pred) is the longest prefix of seq on every element of
\* which pred holds: it ends right before the first element on which pred is
\* false, it is the whole of seq when pred holds on every element (so under
\* the always-true predicate), and seq itself is left unchanged.
C7_TakeWhileLongestPrefix ==
    taken.done =>
        LET t == taken.val
        IN  /\ Len(t) <= Len(list)
            /\ t = SubSeq(list, 1, Len(t))
            /\ \A i \in 1..Len(t) : list[i] \in pred
            /\ Len(t) < Len(list) => list[Len(t) + 1] \notin pred
            /\ (\A i \in 1..Len(list) : list[i] \in pred) => t = list
            /\ pred = true_pred => t = list
            /\ taken.input = list

\* pred holds again after the first element it fails on
C7_Witness ==
    /\ taken.done /\ list = <<0, 2, 0>> /\ pred = {0} /\ taken.val = <<0>>

\* C8: take_while(s, p) followed by drop_while(s, p) is s, element for
\* element, and every element of take_while(s, p) satisfies p.
C8_TakeDropComplement ==
    taken.done /\ dropped.done =>
        /\ taken.val \o dropped.val = list
        /\ Len(taken.val) + Len(dropped.val) = Len(list)
        /\ \A i \in 1..Len(taken.val) : taken.val[i] \in pred

C8_Witness ==
    /\ taken.done /\ dropped.done
    /\ list = <<0, 0, 2>> /\ pred = {0}
    /\ taken.val = <<0, 0>> /\ dropped.val = <<2>>

(***************************************************************************)
(* Concept registry: the explicit specialisations Concept::instance<Tags>  *)
(* of the translation unit                                                 *)
(***************************************************************************)
Numeric2 == <<"Numeric", "Numeric">>

RegKeys == { <<"Comparable", Numeric2>>, <<"Comparable", <<"Tuple", "Tuple">> >>,
             <<"Orderable", Numeric2>>, <<"Logical", <<"Numeric">> >> }

MCDs(concept) ==
    CASE concept = "Comparable" -> {"equal_mcd", "not_equal_mcd"}
      [] concept = "Orderable"  -> {"less_mcd"}
      [] concept = "Logical"    -> {"mcd"}

Instances(reg, concept, tags) ==
    { i \in reg : i.concept = concept /\ i.tags = tags }

\* a second instance for the same (concept, tags) is a translation error
register_instance(reg, concept, tags, mcd) ==
    IF Instances(reg, concept, tags) # {}
    THEN [ok |-> FALSE, registry |-> reg]
    ELSE [ok |-> TRUE,
          registry |-> reg \cup {[concept |-> concept, tags |-> tags, mcd |-> mcd]}]

Register ==
    \E k \in RegKeys :
        \E mcd \in MCDs(k[1]) :
            LET r == register_instance(registry, k[1], k[2], mcd)
            IN  /\ registry' = r.registry
                /\ regCall' = [name |-> "register", concept |-> k[1], tags |-> k[2],
                               mcd |-> mcd, ok |-> r.ok, before |-> registry]
                /\ UNCHANGED << included, notRegistry >>

\* #include <test/numeric/comparable.hpp>: nothing behind the include guard
\* the second time; the first time the one specialisation the configuration
\* selects is defined
IncludeComparable ==
    /\ included' = TRUE
    /\ UNCHANGED notRegistry
    /\ IF included \/ SelectedMCD(defined) = {}
       THEN /\ registry' = registry
            /\ regCall' = [name |-> "include", ok |-> TRUE, before |-> registry]
       ELSE LET mcd == CHOOSE m \in SelectedMCD(defined) : TRUE
                r   == register_instance(registry, "Comparable", Numeric2, mcd)
            IN  /\ registry' = r.registry
                /\ regCall' = [name |-> "include", ok |-> r.ok, before |-> registry]

InitRegistry ==
    /\ registry = {} /\ included = FALSE /\ regCall = [name |-> "none"]
    /\ defined \in SUBSET Macros
    /\ CallIdle /\ BridgeIdle /\ SetIdle /\ SeqIdle /\ ResolveIdle

NextRegistry ==
    \/ Register
    \/ IncludeComparable

SpecRegistry == InitRegistry /\ [][NextRegistry]_vars

\* C9: the registry holds at most one instance per (concept, tags), founded
\* on one MCD; a registration for a (concept, tags) that has an instance
\* fails and leaves the registry unchanged; no instance is ever replaced or
\* removed; once comparable.hpp is included exactly one instance of
\* Comparable for (Numeric, Numeric) exists, whatever macros are defined.
C9_SingleInstance ==
    /\ \A i \in registry, j \in registry :
          i.concept = j.concept /\ i.tags = j.tags => i = j
    /\ \A i \in registry : i.mcd \in MCDs(i.concept)
    /\ regCall.name # "none" => regCall.before \subseteq registry
    /\ regCall.name = "register" =>
          /\ regCall.ok <=> Instances(regCall.before, regCall.concept, regCall.tags) = {}
          /\ ~regCall.ok => registry = regCall.before
    /\ included => Cardinality(Instances(registry, "Comparable", Numeric2)) = 1

\* the header registered the equal-MCD instance; registering the not_equal-MCD
\* one afterwards fails
C9_Witness ==
    /\ included /\ EQUAL_MCD \in defined
    /\ regCall.name = "register" /\ ~regCall.ok
    /\ regCall.concept = "Comparable" /\ regCall.tags = Numeric2
    /\ regCall.mcd = "not_equal_mcd"
    /\ Instances(registry, "Comparable", Numeric2)
          = {[concept |-> "Comparable", tags |-> Numeric2, mcd |-> "equal_mcd"]}

(***************************************************************************)
(* MCD resolver: what each operation's implementation calls, in the order  *)
(* it calls it.  A primitive calls no concept operation.                   *)
(***************************************************************************)
Primitives == {"less", "not_", "eval_if"}

\* less_equal and greater_equal each defined by the other one
OrderableCalls_mutual(o) ==
    CASE o = "less_equal"    -> <<"greater_equal">>
      [] o = "greater"       -> <<"less">>
      [] o = "greater_equal" -> <<"less_equal">>
      [] o = "min"           -> <<"less", "if_">>
      [] o = "max"           -> <<"less", "if_">>

\* Orderable::less_mcd
OrderableCalls(o) ==
    CASE o = "less_equal"    -> <<"less", "not_">>
      [] o = "greater"       -> <<"less">>
      [] o = "greater_equal" -> <<"less", "not_">>
      [] o = "min"           -> <<"less", "if_">>
      [] o = "max"           -> <<"less", "if_">>

\* Logical::mcd
LogicalCalls(o) ==
    CASE o = "or_"  -> <<"if_">>
      [] o = "and_" -> <<"if_">>
      [] o = "if_"  -> <<"eval_if">>

OrderableDerived == {"less_equal", "greater", "greater_equal", "min", "max"}
LogicalDerived == {"or_", "and_", "if_"}
Operations == Primitives \cup OrderableDerived \cup LogicalDerived

Calls(o) ==
    IF o \in OrderableDerived THEN OrderableCalls(o)
    ELSE IF o \in LogicalDerived THEN LogicalCalls(o)
    ELSE << >>

\* resolve(concept, operation, tags) of a call operation(x, y) is requested
StartResolve ==
    /\ pending = << >>
    /\ \E o \in Operations, x \in Numeric, y \in Numeric :
          /\ root' = o
          /\ operands' = <<x, y>>
          /\ pending' = << [operation |-> o, path |-> << >>] >>
    /\ steps' = 0
    /\ UNCHANGED notResolve

\* a primitive is returned directly
ResolvePrimitive ==
    /\ pending # << >>
    /\ Calls(Head(pending).operation) = << >>
    /\ steps < 2 * Cardinality(Operations)
    /\ pending' = Tail(pending)
    /\ steps' = steps + 1
    /\ UNCHANGED << root, operands, notResolve >>

\* a derived operation is its derivation, which resolves what it calls
ResolveDerived ==
    /\ pending # << >>
    /\ Calls(Head(pending).operation) # << >>
    /\ steps < 2 * Cardinality(Operations)
    /\ LET h == Head(pending)
           c == Calls(h.operation)
       IN  pending' = [i \in 1..Len(c) |-> [operation |-> c[i], path |-> Append(h.path, h.operation)]]
                         \o Tail(pending)
    /\ steps' = steps + 1
    /\ UNCHANGED << root, operands, notResolve >>

InitResolve ==
    /\ root = "none" /\ pending = << >> /\ steps = 0 /\ operands = << >>
    /\ CallIdle /\ BridgeIdle /\ SetIdle /\ SeqIdle /\ RegistryIdle
    /\ defined = {}

NextResolve ==
    \/ StartResolve
    \/ ResolvePrimitive
    \/ ResolveDerived

SpecResolve ==
    /\ InitResolve
    /\ [][NextResolve]_vars
    /\ WF_vars(ResolvePrimitive)
    /\ WF_vars(ResolveDerived)

\* number of resolve steps each operation takes
ResolveSteps(o) ==
    CASE o \in Primitives -> 1
      [] o \in {"if_", "greater"} -> 2
      [] o \in {"or_", "and_", "less_equal", "greater_equal"} -> 3
      [] o \in {"min", "max"} -> 4

OnPath(e) == { e.path[i] : i \in 1..Len(e.path) }

ResolveAcyclic ==
    /\ \A i \in 1..Len(pending) :
          /\ pending[i].operation \notin OnPath(pending[i])
          /\ Len(pending[i].path) < Cardinality(Operations)
          /\ Calls(pending[i].operation) = << >> <=> pending[i].operation \in Primitives
    /\ steps <= Cardinality(Operations)
    /\ root # "none" /\ pending = << >> => steps = ResolveSteps(root)

\* C10: resolving any operation of the less-MCD or of the Logical MCD
\* terminates: no operation is reached again on a chain that started from
\* it, every chain ends in a primitive, and the number of steps is fixed by
\* the operation, whatever the operands.
C10_ResolutionTerminates ==
    /\ []ResolveAcyclic
    /\ (pending # << >>) ~> (pending = << >>)

\* min(x, y) resolved through less, if_ and eval_if
C10_Witness ==
    /\ root = "min" /\ operands = <<2, 1>> /\ pending = << >> /\ steps = 4

====
